---- MODULE Spec2Model ----
(***************************************************************************)
(* Math Streak: the game state machine (reducer and hook), the animation   *)
(* orchestrator of the App component and the persistence of the high       *)
(* score.  The repository holds two lines of the game:                     *)
(*   - the "celebration" line: hooks/useGameState.ts (lines 1-162) driven  *)
(*     by the App component of unnamed/part_011 (both outcomes slide);     *)
(*   - the "streak" line: the useGameState hook kept in hooks/useSound.ts  *)
(*     (lines 121-312) driven by App.tsx (modal for incorrect answers).    *)
(* Both are modelled; every specification names the line it runs.          *)
(***************************************************************************)
EXTENDS Integers, Sequences, FiniteSets, TLC

VARIABLES
    state,      \* the reducer's GameState (a record, as in lib/types.ts)
    storage,    \* localStorage item of the high score: "absent", "corrupt" or a number
    mounted,    \* the App component is mounted
    timers,     \* pending setTimeout callbacks of the orchestrator effect
    slide,      \* the App component's cosmetic animation state
    gameConfig, \* the DifficultyConfig the hook was given
    frame,      \* the locals of a running generateAdditionOperands call
    settings,   \* the UserSettings held by useSettings
    settingsItem, \* localStorage item of the settings
    hint,       \* TenFrame's isVisible
    last        \* history: the last event handled and the GameState before it

vars == <<state, storage, mounted, timers, slide, gameConfig, frame, settings,
          settingsItem, hint, last>>

----------------------------------------------------------------------------
(* Bounds of the model and program constants *)

\* largest sum the settings allow (constraints.maxResult, set from the settings panel)
MaxResult == 1
\* the digit keys of the model are "0" and this non-zero digit
NonZeroDigit == 1
\* cap on the streak counter explored
MaxStreak == 2
\* largest high score found in storage when the session starts
MaxStored == 1
\* cap on the cosmetic reset timers pending at once
MaxResetTimers == 1
\* largest maxResult of the configurations the generator is given
MaxGenResult == 2
\* largest maxOperand of the configurations the generator is given
MaxGenOperand == 2
\* largest minOperand of the configurations the generator is given
MaxGenMinOperand == 1
\* largest maxResult of the configurations with more than two operands
MaxSeqResult == 4
\* largest operandCount of the configurations with more than two operands
MaxOperandCount == 3

MAX_ANSWER_LENGTH == 3
DEFAULT_MAX_OPERAND == 10
DEFAULT_MIN_OPERAND == 0

Null == "null"

\* no action dispatched
NoAction == [type |-> "none"]

\* the streak hook's state on its first render, given the first problem and the
\* high score read from storage
Streak_initialGameState(problem, storedScore) ==
    [ currentProblem |-> problem,
      currentAnswer |-> <<>>,
      streak |-> 0,
      highScore |-> storedScore,
      isAnswerCorrect |-> Null,
      showFeedback |-> FALSE,
      celebrationPhase |-> Null ]

\* the celebration hook's state on its first render, given the first problem
initialGameState(problem) ==
    [ currentProblem |-> problem,
      currentAnswer |-> <<>>,
      isAnswerCorrect |-> Null,
      celebrationPhase |-> Null ]

\* App's slide flags on its first render
initialSlide ==
    [ isSlideOut |-> FALSE, isSlideIn |-> FALSE,
      showAnswerInPlace |-> FALSE, slidingOutProblem |-> Null ]

DigitChars == <<"0", "1", "2", "3", "4", "5", "6", "7", "8", "9">>

\* /^\d$/.test(s): a single decimal digit
IsDigit(s) == \E i \in 1..10 : DigitChars[i] = s

DigitValue(s) == (CHOOSE i \in 1..10 : DigitChars[i] = s) - 1

\* parseInt(text, 10) of a text of decimal digits (a sequence of characters)
RECURSIVE parseInt(_)
parseInt(text) ==
    IF Len(text) = 0 THEN 0
    ELSE parseInt(SubSeq(text, 1, Len(text) - 1)) * 10 + DigitValue(text[Len(text)])

\* String.prototype.slice(0, -1)
SliceLast(text) == IF Len(text) = 0 THEN text ELSE SubSeq(text, 1, Len(text) - 1)

\* payloads the callers of updateAnswer may pass: digits and two non-digits
Payloads == {DigitChars[i + 1] : i \in {0, NonZeroDigit}} \cup {"x", "12"}

\* keys the keyboard listener may see
Keys == {DigitChars[i + 1] : i \in {0, NonZeroDigit}} \cup {"Backspace", "Enter", "x"}

----------------------------------------------------------------------------
(* Numbers as JavaScript computes them: the quotient of two integers *)

Abs(n) == IF n < 0 THEN -n ELSE n

Sign(n) == IF n < 0 THEN -1 ELSE IF n = 0 THEN 0 ELSE 1

RECURSIVE GCD(_, _)
GCD(a, b) == IF b = 0 THEN a ELSE GCD(b, a % b)

\* an integer as a number
Num(n) == [num |-> n, den |-> 1]

\* a / b: a fraction in lowest terms; den = 0 stands for Infinity (num 1),
\* -Infinity (num -1) and NaN (num 0)
Divide(a, b) ==
    IF b = 0 THEN [num |-> Sign(a), den |-> 0]
    ELSE LET g == GCD(Abs(a), Abs(b))
         IN  [num |-> (Sign(b) * a) \div g, den |-> Abs(b) \div g]

\* Number.isInteger
IsInteger(x) == x.den = 1

----------------------------------------------------------------------------
(* Problem generator: lib/problemGenerator.ts, the constraint-driven generator *)

\* Math.floor(Math.random() * (max - min + 1)) + min, every value it can return
getRandomInt(min, max) == IF min <= max THEN min..max ELSE (max + 1)..min

Min(a, b) == IF a <= b THEN a ELSE b

Max(a, b) == IF a >= b THEN a ELSE b

RECURSIVE SumSeq(_)
SumSeq(s) == IF Len(s) = 0 THEN 0 ELSE s[1] + SumSeq(Tail(s))

RECURSIVE ProductSeq(_)
ProductSeq(s) == IF Len(s) = 0 THEN 1 ELSE s[1] * ProductSeq(Tail(s))

\* calculateAnswer for the operand counts the generators return (2 for all
\* operations but addition)
calculateAnswer(operation, operands) ==
    CASE operation = "addition" -> Num(SumSeq(operands))
      [] operation = "subtraction" -> Num(operands[1] - SumSeq(Tail(operands)))
      [] operation = "multiplication" -> Num(ProductSeq(operands))
      [] operation = "division" -> Divide(operands[1], operands[2])

\* DEFAULT_CONFIG with maxResult taken from the settings
GameConfig ==
    [ operations |-> {"addition"},
      operandCount |-> 2,
      unknownPositions |-> {"result"},
      constraints |-> [ maxResult |-> MaxResult,
                        minOperand |-> DEFAULT_MIN_OPERAND,
                        maxOperand |-> DEFAULT_MAX_OPERAND ] ]

\* the for loop leaving no room for the operands still to come
pushOperand_NoHeadroom(config, operands, remainingSum) ==
    LET c == config.constraints
        isLastOperand == Len(operands) = config.operandCount - 1
    IN  IF isLastOperand
        THEN { << Append(operands, Max(c.minOperand, Min(remainingSum, c.maxOperand))),
                  remainingSum >> }
        ELSE { << Append(operands, value), remainingSum - value >> :
               value \in getRandomInt(c.minOperand,
                                      Max(c.minOperand, Min(c.maxOperand, remainingSum))) }

\* one iteration of the for loop of the 3+-operand branch, given the operands
\* pushed so far and remainingSum: every <<operands, remainingSum>> it can leave
pushOperand(config, operands, remainingSum) ==
    LET c == config.constraints
        i == Len(operands)
        isLastOperand == i = config.operandCount - 1
        remainingOperands == config.operandCount - i - 1
        maxPossible == Min(c.maxOperand,
                           remainingSum - (remainingOperands * c.minOperand))
    IN  IF isLastOperand
        THEN { << Append(operands, Max(c.minOperand, Min(remainingSum, c.maxOperand))),
                  remainingSum >> }
        ELSE { << Append(operands, value), remainingSum - value >> :
               value \in getRandomInt(c.minOperand, Max(c.minOperand, maxPossible)) }

\* the for loop run from the given locals to its end: every array it can fill
RECURSIVE allocateFrom(_, _, _)
allocateFrom(config, operands, remainingSum) ==
    IF Len(operands) >= config.operandCount THEN {operands}
    ELSE UNION { allocateFrom(config, next[1], next[2]) :
                 next \in pushOperand(config, operands, remainingSum) }

\* operands.sort(() => Math.random() - 0.5): the comparator is inconsistent, so
\* the order is any order of the same elements
shuffle(operands) ==
    { [i \in 1..Len(operands) |-> operands[p[i]]] :
      p \in Permutations(1..Len(operands)) }

\* generateAdditionOperands: for 2 operands every pair the rejection loop can
\* return, for more the sequential allocation, shuffled
generateAdditionOperands(config) ==
    IF config.operandCount # 2
    THEN UNION { shuffle(operands) :
                 operands \in allocateFrom(config, <<>>, config.constraints.maxResult) }
    ELSE
    LET c == config.constraints
        drawn == { <<a, b>> : a \in getRandomInt(c.minOperand, c.maxOperand),
                              b \in getRandomInt(c.minOperand, c.maxOperand) }
        valid == { p \in drawn : p[1] + p[2] <= c.maxResult }
        fallback == UNION { { <<a, b>> : b \in getRandomInt(c.minOperand,
                                                  Min(c.maxOperand, c.maxResult - a)) }
                            : a \in getRandomInt(c.minOperand,
                                                 Min(c.maxOperand, c.maxResult)) }
    IN  \* the fallback is taken once 100 draws in a row were rejected
        valid \cup (IF drawn # valid THEN fallback ELSE {})

\* the loop's "attempts > 100" (the safety check of the rejection loop)
MAX_ATTEMPTS == 100

\* no call of generateAdditionOperands is running
idleFrame == [pc |-> "idle", attempts |-> 0, operand1 |-> 0, operand2 |-> 0]

\* generateAdditionOperands has been entered: let operand1, operand2; attempts = 0
enteredFrame == [pc |-> "loop", attempts |-> 0, operand1 |-> 0, operand2 |-> 0]

\* one iteration of the rejection loop without the safety check
additionLoopStep_NoBudget(config, f) ==
    LET c == config.constraints
    IN  { [ pc |-> IF a + b > c.maxResult THEN "loop" ELSE "return",
            attempts |-> f.attempts + 1,
            operand1 |-> a,
            operand2 |-> b ] :
          a \in getRandomInt(c.minOperand, c.maxOperand),
          b \in getRandomInt(c.minOperand, c.maxOperand) }

\* one iteration of the do-while loop of generateAdditionOperands: the draw,
\* attempts++, the safety check with its fallback and break, the loop condition
additionLoopStep(config, f) ==
    LET c == config.constraints
        attempts == f.attempts + 1
    IN  IF attempts > MAX_ATTEMPTS
        THEN UNION { { [ pc |-> "return", attempts |-> attempts,
                         operand1 |-> a, operand2 |-> b ] :
                       b \in getRandomInt(c.minOperand,
                                          Min(c.maxOperand, c.maxResult - a)) }
                     : a \in getRandomInt(c.minOperand,
                                          Min(c.maxOperand, c.maxResult)) }
        ELSE { [ pc |-> IF a + b > c.maxResult THEN "loop" ELSE "return",
                 attempts |-> attempts,
                 operand1 |-> a,
                 operand2 |-> b ] :
               a \in getRandomInt(c.minOperand, c.maxOperand),
               b \in getRandomInt(c.minOperand, c.maxOperand) }

\* generateSubtractionOperands: result first, then the subtrahend, the minuend
\* derived and clamped
generateSubtractionOperands(config) ==
    LET c == config.constraints
        pair(result, subtrahend) ==
            LET minuend == result + subtrahend
                clampedMinuend == Min(minuend, c.maxOperand)
            IN  IF clampedMinuend < subtrahend
                THEN <<clampedMinuend, Min(subtrahend, clampedMinuend)>>
                ELSE <<clampedMinuend, subtrahend>>
    IN  { pair(result, subtrahend) :
              result \in getRandomInt(c.minOperand, c.maxResult),
              subtrahend \in getRandomInt(c.minOperand, c.maxOperand) }

\* generateMultiplicationOperands
generateMultiplicationOperands(config) ==
    LET c == config.constraints
        maxSecondOperand(firstOperand) ==
            IF firstOperand = 0 THEN c.maxOperand
            ELSE Min(c.maxOperand, c.maxResult \div firstOperand)
    IN  UNION { { <<firstOperand, secondOperand>> :
                    secondOperand \in getRandomInt(c.minOperand,
                                                   maxSecondOperand(firstOperand)) }
                : firstOperand \in getRandomInt(c.minOperand, c.maxOperand) }

\* generateDivisionOperands
generateDivisionOperands(config) ==
    LET c == config.constraints
    IN  { <<quotient * divisor, divisor>> :
              quotient \in getRandomInt(Max(c.minOperand, 0), c.maxResult),
              divisor \in getRandomInt(Max(c.minOperand, 1), c.maxOperand) }

generateOperands(config, operation) ==
    CASE operation = "addition" -> generateAdditionOperands(config)
      [] operation = "subtraction" -> generateSubtractionOperands(config)
      [] operation = "multiplication" -> generateMultiplicationOperands(config)
      [] operation = "division" -> generateDivisionOperands(config)

\* unknownPosition.match(/^operand-(\d+)$/), parseInt(match[1], 10)
unknownIndexOf(unknownPosition) ==
    CASE unknownPosition = "operand-0" -> 0
      [] unknownPosition = "operand-1" -> 1

\* calculateUnknownOperand; unknownIndex counts from 0 as in the source
calculateUnknownOperand(operation, generatedOperands, unknownIndex, result) ==
    LET knownOperand == generatedOperands[(1 - unknownIndex) + 1]
    IN  CASE operation = "addition" -> Num(result - knownOperand)
          [] operation = "subtraction" ->
                IF unknownIndex = 0 THEN Num(result + knownOperand)
                ELSE Num(generatedOperands[1] - result)
          [] operation = "multiplication" -> Divide(result, knownOperand)
          [] operation = "division" ->
                IF unknownIndex = 0 THEN Num(result * knownOperand)
                ELSE Divide(generatedOperands[1], result)

\* getOperationSymbol; "x" and "/" stand for the multiplication and division signs
getOperationSymbol(operation) ==
    CASE operation = "addition" -> "+"
      [] operation = "subtraction" -> "-"
      [] operation = "multiplication" -> "x"
      [] operation = "division" -> "/"

\* one part of the display string: a number, the operation's symbol, "?" or "="
Part(kind, value) == [kind |-> kind, value |-> value]

\* generateDisplayString marking the result whatever the unknown position is
generateDisplayString_ResultOnly(operation, operands, unknownPosition, answer) ==
    << Part("number", operands[1]), Part(getOperationSymbol(operation), Num(0)),
       Part("number", operands[2]), Part("=", Num(0)), Part("?", Num(0)) >>

\* generateDisplayString: the parts the string is joined from, in order
generateDisplayString(operation, operands, unknownPosition, answer) ==
    LET symbol == Part(getOperationSymbol(operation), Num(0))
        shown(i) == IF unknownPosition # "result" /\ i = unknownIndexOf(unknownPosition) + 1
                    THEN Part("?", Num(0))
                    ELSE Part("number", operands[i])
        right == IF unknownPosition = "result" THEN Part("?", Num(0))
                 ELSE Part("number", answer)
        parts == [k \in 1..(2 * Len(operands) - 1) |->
                    IF k % 2 = 1 THEN shown((k + 1) \div 2) ELSE symbol]
    IN  parts \o <<Part("=", Num(0)), right>>

\* generateProblem: every problem it can return for the configuration
generateProblem(config) ==
    UNION {
      { LET unknownIndex == unknownIndexOf(unknownPosition)
            result == generatedOperands[unknownIndex + 1]
            answer == IF unknownPosition = "result"
                      THEN calculateAnswer(operation, generatedOperands)
                      ELSE calculateUnknownOperand(operation, generatedOperands,
                                                   unknownIndex, result)
            numbers == [i \in 1..Len(generatedOperands) |-> Num(generatedOperands[i])]
            operands == IF unknownPosition = "result" THEN numbers
                        ELSE [numbers EXCEPT ![unknownIndex + 1] = answer]
        IN  [ operation |-> operation,
              operands |-> operands,
              unknownPosition |-> unknownPosition,
              answer |-> answer,
              displayString |-> generateDisplayString(operation, operands,
                                                      unknownPosition, answer) ]
        : generatedOperands \in generateOperands(config, operation) }
      : operation \in config.operations, unknownPosition \in config.unknownPositions }

----------------------------------------------------------------------------
(* The reducer of the celebration line: hooks/useGameState.ts, gameReducer *)

Bool(b) == IF b THEN "true" ELSE "false"

\* UPDATE_ANSWER without the length cap
UPDATE_ANSWER_NoCap(s, digit) ==
    IF ~IsDigit(digit) THEN s
    ELSE [s EXCEPT !.currentAnswer = Append(s.currentAnswer, digit)]

UPDATE_ANSWER(s, digit) ==
    IF Len(s.currentAnswer) >= MAX_ANSWER_LENGTH THEN s
    ELSE IF ~IsDigit(digit) THEN s
    ELSE [s EXCEPT !.currentAnswer = Append(s.currentAnswer, digit)]

\* DELETE_DIGIT clearing the whole answer
DELETE_DIGIT_Clear(s) == [s EXCEPT !.currentAnswer = <<>>]

DELETE_DIGIT(s) == [s EXCEPT !.currentAnswer = SliceLast(s.currentAnswer)]

\* SUBMIT_ANSWER emptying the answer it has evaluated
SUBMIT_ANSWER_ClearsAnswer(s) ==
    IF s.currentAnswer = <<>> THEN s
    ELSE IF s.celebrationPhase # Null THEN s
    ELSE [s EXCEPT !.isAnswerCorrect =
                       Bool(Num(parseInt(s.currentAnswer)) = s.currentProblem.answer),
                   !.celebrationPhase = "revealing",
                   !.currentAnswer = <<>>]

\* SUBMIT_ANSWER without the guard against re-submission during the celebration
SUBMIT_ANSWER_Resubmit(s) ==
    IF s.currentAnswer = <<>> THEN s
    ELSE [s EXCEPT !.isAnswerCorrect =
                       Bool(Num(parseInt(s.currentAnswer)) = s.currentProblem.answer),
                   !.celebrationPhase = "revealing"]

\* SUBMIT_ANSWER starting the animation for correct answers only
SUBMIT_ANSWER_CorrectOnly(s) ==
    IF s.currentAnswer = <<>> THEN s
    ELSE IF s.celebrationPhase # Null THEN s
    ELSE LET isCorrect == Num(parseInt(s.currentAnswer)) = s.currentProblem.answer
         IN  [s EXCEPT !.isAnswerCorrect = Bool(isCorrect),
                       !.celebrationPhase = IF isCorrect THEN "revealing" ELSE Null]

\* SUBMIT_ANSWER without the empty-answer guard: parseInt('') is NaN, which
\* equals no answer
SUBMIT_ANSWER_EmptyEvaluates(s) ==
    IF s.celebrationPhase # Null THEN s
    ELSE LET isCorrect == s.currentAnswer # <<>>
                          /\ Num(parseInt(s.currentAnswer)) = s.currentProblem.answer
         IN  [s EXCEPT !.isAnswerCorrect = Bool(isCorrect),
                       !.celebrationPhase = "revealing"]

SUBMIT_ANSWER(s) ==
    IF s.currentAnswer = <<>> THEN s
    ELSE IF s.celebrationPhase # Null THEN s
    ELSE LET userAnswer == parseInt(s.currentAnswer)
             isCorrect == Num(userAnswer) = s.currentProblem.answer
         IN  [s EXCEPT !.isAnswerCorrect = Bool(isCorrect),
                       !.celebrationPhase = "revealing"]

START_CELEBRATION(s) == [s EXCEPT !.celebrationPhase = "revealing"]

TRANSITION_TO_NEXT(s) == [s EXCEPT !.celebrationPhase = "transitioning"]

COMPLETE_TRANSITION(s) == [s EXCEPT !.celebrationPhase = Null]

\* NEXT_PROBLEM entering the third phase and leaving the reset to
\* COMPLETE_TRANSITION
NEXT_PROBLEM_Transitioning(s, problem) ==
    [s EXCEPT !.currentProblem = problem,
              !.currentAnswer = <<>>,
              !.isAnswerCorrect = Null,
              !.celebrationPhase = "transitioning"]

NEXT_PROBLEM(s, problem) ==
    [s EXCEPT !.currentProblem = problem,
              !.currentAnswer = <<>>,
              !.isAnswerCorrect = Null,
              !.celebrationPhase = Null]

gameReducer(s, action) ==
    CASE action.type = "UPDATE_ANSWER" -> UPDATE_ANSWER(s, action.digit)
      [] action.type = "DELETE_DIGIT" -> DELETE_DIGIT(s)
      [] action.type = "SUBMIT_ANSWER" -> SUBMIT_ANSWER(s)
      [] action.type = "START_CELEBRATION" -> START_CELEBRATION(s)
      [] action.type = "TRANSITION_TO_NEXT" -> TRANSITION_TO_NEXT(s)
      [] action.type = "COMPLETE_TRANSITION" -> COMPLETE_TRANSITION(s)
      [] action.type = "NEXT_PROBLEM" -> NEXT_PROBLEM(s, action.problem)
      [] OTHER -> s

----------------------------------------------------------------------------
(* The reducer of the streak line: the useGameState hook in hooks/useSound.ts *)

\* SUBMIT_ANSWER resetting the streak at once on an incorrect answer
Streak_SUBMIT_ANSWER_ResetAtSubmit(s) ==
    IF s.currentAnswer = <<>> THEN s
    ELSE IF s.showFeedback THEN s
    ELSE LET isCorrect == Num(parseInt(s.currentAnswer)) = s.currentProblem.answer
         IN  [s EXCEPT !.isAnswerCorrect = Bool(isCorrect),
                       !.showFeedback = ~isCorrect,
                       !.celebrationPhase = IF isCorrect THEN "revealing" ELSE Null,
                       !.streak = IF isCorrect THEN s.streak + 1 ELSE 0]

\* SUBMIT_ANSWER starting the animated flow for both outcomes, as the
\* celebration line does
Streak_SUBMIT_ANSWER_AlwaysReveal(s) ==
    IF s.currentAnswer = <<>> THEN s
    ELSE IF s.showFeedback THEN s
    ELSE LET isCorrect == Num(parseInt(s.currentAnswer)) = s.currentProblem.answer
         IN  [s EXCEPT !.isAnswerCorrect = Bool(isCorrect),
                       !.showFeedback = ~isCorrect,
                       !.celebrationPhase = "revealing",
                       !.streak = IF isCorrect THEN s.streak + 1 ELSE s.streak]

Streak_SUBMIT_ANSWER(s) ==
    IF s.currentAnswer = <<>> THEN s
    ELSE IF s.showFeedback THEN s
    ELSE LET userAnswer == parseInt(s.currentAnswer)
             isCorrect == Num(userAnswer) = s.currentProblem.answer
         IN  [s EXCEPT !.isAnswerCorrect = Bool(isCorrect),
                       !.showFeedback = ~isCorrect,
                       !.celebrationPhase = IF isCorrect THEN "revealing" ELSE Null,
                       !.streak = IF isCorrect THEN s.streak + 1 ELSE s.streak]

\* NEXT_PROBLEM keeping the streak whatever the outgoing answer was
Streak_NEXT_PROBLEM_KeepStreak(s, problem) ==
    [s EXCEPT !.currentProblem = problem,
              !.currentAnswer = <<>>,
              !.isAnswerCorrect = Null,
              !.showFeedback = FALSE,
              !.celebrationPhase = Null]

Streak_NEXT_PROBLEM(s, problem) ==
    [s EXCEPT !.currentProblem = problem,
              !.currentAnswer = <<>>,
              !.isAnswerCorrect = Null,
              !.showFeedback = FALSE,
              !.celebrationPhase = Null,
              !.streak = IF s.isAnswerCorrect = "false" THEN 0 ELSE s.streak]

SET_HIGH_SCORE(s, score) == [s EXCEPT !.highScore = score]

Streak_gameReducer(s, action) ==
    CASE action.type = "UPDATE_ANSWER" -> UPDATE_ANSWER(s, action.digit)
      [] action.type = "DELETE_DIGIT" -> DELETE_DIGIT(s)
      [] action.type = "SUBMIT_ANSWER" -> Streak_SUBMIT_ANSWER(s)
      [] action.type = "START_CELEBRATION" -> START_CELEBRATION(s)
      [] action.type = "TRANSITION_TO_NEXT" -> TRANSITION_TO_NEXT(s)
      [] action.type = "COMPLETE_TRANSITION" -> COMPLETE_TRANSITION(s)
      [] action.type = "NEXT_PROBLEM" -> Streak_NEXT_PROBLEM(s, action.problem)
      [] action.type = "SET_HIGH_SCORE" -> SET_HIGH_SCORE(s, action.score)
      [] OTHER -> s

----------------------------------------------------------------------------
(* The two lines of the game *)

Celebration == "celebration"
Streak == "streak"

Reduce(line, s, action) ==
    IF line = Streak THEN Streak_gameReducer(s, action) ELSE gameReducer(s, action)

----------------------------------------------------------------------------
(* Persistence: hooks/useLocalStorage.ts *)

StoredItems ==
    {[kind |-> "absent", value |-> 0], [kind |-> "corrupt", value |-> 0]}
        \cup {[kind |-> "number", value |-> n] : n \in 0..MaxStored}

\* a storage whose access throws (SecurityError), and a window without localStorage
FailingItems ==
    {[kind |-> "denied", value |-> 0], [kind |-> "unavailable", value |-> 0]}

\* useLocalStorage, the try block of the initial read: the value it returns,
\* or that getItem or JSON.parse threw
tryRead(item, initialValue) ==
    CASE item.kind = "unavailable" -> [value |-> initialValue, threw |-> FALSE]
      [] item.kind = "denied" -> [value |-> initialValue, threw |-> TRUE]
      [] item.kind = "absent" -> [value |-> initialValue, threw |-> FALSE]
      [] item.kind = "corrupt" -> [value |-> initialValue, threw |-> TRUE]
      [] item.kind = "number" -> [value |-> item.value, threw |-> FALSE]

\* the initial read without its catch
readStored_NoCatch(item, initialValue) == tryRead(item, initialValue)

\* useLocalStorage, initial read: the catch returns initialValue
readStored(item, initialValue) ==
    LET attempt == tryRead(item, initialValue)
    IN  IF attempt.threw THEN [value |-> initialValue, threw |-> FALSE] ELSE attempt

\* useLocalStorage, initial read: the stored value, or initialValue
loadStored(item, initialValue) == readStored(item, initialValue).value

\* setValue without its catch: the error escapes to the caller
saveStored_NoCatch(item, value) ==
    IF item.kind \in {"denied", "unavailable"}
    THEN {[threw |-> item.kind = "denied", item |-> item]}
    ELSE { [threw |-> FALSE, item |-> [kind |-> "number", value |-> value]],
           [threw |-> TRUE, item |-> item] }

\* useLocalStorage, setValue: the item after the write succeeded or failed (the
\* quota is exceeded, access is denied); the catch keeps the error
saveStored(item, value) ==
    IF item.kind \in {"denied", "unavailable"}
    THEN {[threw |-> FALSE, item |-> item]}
    ELSE { [threw |-> FALSE, item |-> [kind |-> "number", value |-> value]],
           [threw |-> FALSE, item |-> item] }

----------------------------------------------------------------------------
(* Settings: useSettings (unnamed/part_008) *)

DEFAULT_SETTINGS == [darkMode |-> FALSE, soundEnabled |-> TRUE]

\* the two display toggles of UserSettings; the fields that choose operations
\* and unknown positions are carried the same way and are left out
UserSettings == [darkMode : BOOLEAN, soundEnabled : BOOLEAN]

\* Partial<UserSettings>
PartialSettings ==
    UserSettings \cup {[darkMode |-> b] : b \in BOOLEAN}
                 \cup {[soundEnabled |-> b] : b \in BOOLEAN}

SettingsItems ==
    {[kind |-> k, value |-> DEFAULT_SETTINGS] : k \in {"absent", "corrupt", "denied"}}
        \cup {[kind |-> "object", value |-> v] : v \in PartialSettings}

\* { ...a, ...b }
Spread(a, b) ==
    [f \in DOMAIN a \cup DOMAIN b |-> IF f \in DOMAIN b THEN b[f] ELSE a[f]]

\* useSettings, the try block of the initial load
tryLoadSettings(item) ==
    CASE item.kind = "denied" -> [value |-> DEFAULT_SETTINGS, threw |-> TRUE]
      [] item.kind = "absent" -> [value |-> DEFAULT_SETTINGS, threw |-> FALSE]
      [] item.kind = "corrupt" -> [value |-> DEFAULT_SETTINGS, threw |-> TRUE]
      [] item.kind = "object" ->
            [value |-> Spread(DEFAULT_SETTINGS, item.value), threw |-> FALSE]

\* the initial load without its catch
loadSettings_NoCatch(item) == tryLoadSettings(item)

\* useSettings, initial load: the stored settings over the defaults, or the defaults
loadSettings(item) ==
    LET attempt == tryLoadSettings(item)
    IN  IF attempt.threw THEN [value |-> DEFAULT_SETTINGS, threw |-> FALSE] ELSE attempt

\* updateSettings without its catch
saveSettings_NoCatch(item, next) ==
    IF item.kind = "denied" THEN {[threw |-> TRUE, item |-> item]}
    ELSE { [threw |-> FALSE, item |-> [kind |-> "object", value |-> next]],
           [threw |-> TRUE, item |-> item] }

\* updateSettings, the write inside the updater: succeeded or failed
saveSettings(item, next) ==
    IF item.kind = "denied" THEN {[threw |-> FALSE, item |-> item]}
    ELSE { [threw |-> FALSE, item |-> [kind |-> "object", value |-> next]],
           [threw |-> FALSE, item |-> item] }

----------------------------------------------------------------------------
(* The orchestrator effect of the App component *)

SlideTimer(captured) == [kind |-> "slide", captured |-> captured, tracked |-> TRUE]

\* the nested timer: App.tsx pushes it onto the effect's timers array,
\* unnamed/part_011 leaves it out of the cleanup on purpose
ResetTimer(line) == [kind |-> "reset", tracked |-> (line = Streak)]

\* a cleanup that clears nothing
cleanupTimers_None(tm) == tm

\* the effect's cleanup: clearTimeout of every timer the effect kept
cleanupTimers(tm) == SelectSeq(tm, LAMBDA t : ~t.tracked)

\* the effect orchestrating correct answers only
celebrationEffect_CorrectOnly(s, tm) ==
    IF s.celebrationPhase = "revealing" /\ s.isAnswerCorrect = "true"
    THEN Append(tm, SlideTimer(s.currentProblem))
    ELSE tm

\* the effect body: on 'revealing' schedule the slide timer, closing over the
\* problem of this render
celebrationEffect(s, tm) ==
    IF s.celebrationPhase = "revealing"
    THEN Append(tm, SlideTimer(s.currentProblem))
    ELSE tm

\* a render that runs the effect body without the previous run's cleanup
renderTimers_NoCleanup(s, tm) == celebrationEffect(s, tm)

\* a render of App: the effect's dependencies include the actions object, which
\* is new on every render, so the cleanup and the body run on every render
renderTimers(s, tm) == celebrationEffect(s, cleanupTimers(tm))

\* showAnswerInPlace as the effect sets it
renderSlide(line, s, sl) ==
    IF s.celebrationPhase = "revealing" /\ (line = Streak \/ s.isAnswerCorrect = "true")
    THEN [sl EXCEPT !.showAnswerInPlace = TRUE]
    ELSE sl

\* TenFrame's visibility after a render that shows the problem next in place
\* of prev: the component returns before its hooks unless the problem is an
\* addition of two operands; its effect hides the frame when operands[0] or
\* operands[1] is another number than in the render before
tenFrameEffect(prev, next, visible) ==
    IF next.operation # "addition" \/ Len(next.operands) # 2 THEN visible
    ELSE IF Len(prev.operands) # 2 THEN FALSE
    ELSE IF next.operands[1] # prev.operands[1] \/ next.operands[2] # prev.operands[2]
         THEN FALSE
    ELSE visible

\* FeedbackModal's auto-advance effect schedules its timer: the modal is
\* visible (isVisible = showFeedback) over a correct answer
modalAutoAdvance(s) == s.showFeedback /\ s.isAnswerCorrect = "true"

\* the keyboard listener left enabled in every phase
inputEnabled_Always(line, s) == TRUE

\* useKeyboardInput's enabled flag as App passes it
inputEnabled(line, s) ==
    IF line = Streak
    THEN ~s.showFeedback /\ s.celebrationPhase = Null
    ELSE s.celebrationPhase = Null

\* NumberPad's disabled flag as App passes it
padDisabled(line, s) ==
    IF line = Streak
    THEN s.showFeedback \/ s.celebrationPhase # Null
    ELSE s.celebrationPhase # Null

\* the effect firing whenever streak and high score differ
highScorePending_Differs(line, s) == line = Streak /\ s.streak # s.highScore

\* the effect firing one correct answer late
highScorePending_Late(line, s) == line = Streak /\ s.streak > s.highScore + 1

\* the high-score effect of the streak line has a dispatch to make
highScorePending(line, s) == line = Streak /\ s.streak > s.highScore

\* the model explores streaks up to MaxStreak
streakBelowCap(line, s) == line = Streak => s.streak < MaxStreak

----------------------------------------------------------------------------
(* Initial states *)

\* the streak of a state (the celebration line counts none)
streakOf(s) == IF "streak" \in DOMAIN s THEN s.streak ELSE 0

\* the high score of a state (the celebration line keeps none)
highScoreOf(s) == IF "highScore" \in DOMAIN s THEN s.highScore ELSE 0

\* the history when a session starts: nothing dispatched yet, the high score
\* as it was loaded
Started(event) ==
    [action |-> NoAction, event |-> event, pre |-> state, wasMounted |-> TRUE,
     preSettings |-> settings, loaded |-> highScoreOf(state), best |-> 0]

\* the first render of the hook given one of the configurations
InitWith(line, configs) ==
    /\ gameConfig \in configs
    /\ storage \in (IF line = Streak THEN StoredItems
                    ELSE {[kind |-> "absent", value |-> 0]})
    /\ \E problem \in generateProblem(gameConfig) :
          state = IF line = Streak
                  THEN Streak_initialGameState(problem, loadStored(storage, 0))
                  ELSE initialGameState(problem)
    /\ mounted = TRUE
    /\ timers = <<>>
    /\ slide = initialSlide
    /\ frame = idleFrame
    /\ hint = FALSE
    /\ settingsItem = [kind |-> "absent", value |-> DEFAULT_SETTINGS]
    /\ settings = loadSettings(settingsItem).value
    /\ last = Started("init")

InitLine(line) == InitWith(line, {GameConfig})

\* history: the event handled, the action it dispatched and the state before it
Event(event, action) ==
    [action |-> action, event |-> event, pre |-> state, wasMounted |-> mounted,
     preSettings |-> settings, loaded |-> last.loaded,
     best |-> Max(last.best, streakOf(state))]

----------------------------------------------------------------------------
(* The hook's actions, called by any caller: useGameState *)

HookDispatch(line, action) ==
    /\ ~highScorePending(line, state)
    /\ state' = Reduce(line, state, action)
    /\ last' = Event("hook", action)
    /\ UNCHANGED <<storage, mounted, timers, slide, gameConfig, frame, settings, settingsItem>>
    /\ hint' = tenFrameEffect(state.currentProblem, state'.currentProblem, hint)

updateAnswer(line, digit) ==
    HookDispatch(line, [type |-> "UPDATE_ANSWER", digit |-> digit])

deleteLastDigit(line) == HookDispatch(line, [type |-> "DELETE_DIGIT"])

submitAnswer(line) ==
    /\ streakBelowCap(line, state)
    /\ HookDispatch(line, [type |-> "SUBMIT_ANSWER"])

nextProblem(line) ==
    \E newProblem \in generateProblem(gameConfig) :
        HookDispatch(line, [type |-> "NEXT_PROBLEM", problem |-> newProblem])

\* the effect of the streak line: setHighScore(state.streak) and SET_HIGH_SCORE
highScoreEffect(line) ==
    /\ highScorePending(line, state)
    /\ \E outcome \in saveStored(storage, state.streak) :
          LET action == [type |-> "SET_HIGH_SCORE", score |-> state.streak]
          IN  /\ storage' = outcome.item
              /\ last' = Event("effect", action)
              /\ IF outcome.threw
                 THEN \* the error leaves the effect and React removes the tree
                      state' = state /\ mounted' = FALSE
                 ELSE state' = Reduce(line, state, action) /\ mounted' = mounted
    /\ UNCHANGED <<timers, slide, gameConfig, frame, settings, settingsItem>>
    /\ hint' = tenFrameEffect(state.currentProblem, state'.currentProblem, hint)

HookNext(line) ==
    \/ \E digit \in Payloads : updateAnswer(line, digit)
    \/ deleteLastDigit(line)
    \/ submitAnswer(line)
    \/ nextProblem(line)

----------------------------------------------------------------------------
(* The App component: input handlers, timers and lifecycle *)

\* an event handler dispatches, React renders, the orchestrator effect runs
UIDispatch(line, event, action) ==
    /\ state' = Reduce(line, state, action)
    /\ timers' = renderTimers(state', timers)
    /\ slide' = renderSlide(line, state', slide)
    /\ last' = Event(event, action)
    /\ UNCHANGED <<storage, mounted, gameConfig, frame, settings, settingsItem>>
    /\ hint' = tenFrameEffect(state.currentProblem, state'.currentProblem, hint)

\* the handler returns without calling any action
Ignored(event, key) ==
    /\ last' = Event(event, [type |-> "none", key |-> key])
    /\ UNCHANGED <<state, storage, mounted, timers, slide, gameConfig, frame, settings, settingsItem>>
    /\ hint' = tenFrameEffect(state.currentProblem, state'.currentProblem, hint)

\* useKeyboardInput, handleKeyDown
KeyDown(line, key) ==
    /\ mounted
    /\ ~highScorePending(line, state)
    /\ IF ~inputEnabled(line, state) THEN Ignored("keydown", key)
       ELSE IF IsDigit(key)
            THEN UIDispatch(line, "keydown", [type |-> "UPDATE_ANSWER", digit |-> key])
       ELSE IF key = "Backspace"
            THEN UIDispatch(line, "keydown", [type |-> "DELETE_DIGIT"])
       ELSE IF key = "Enter"
            THEN /\ streakBelowCap(line, state)
                 /\ UIDispatch(line, "keydown", [type |-> "SUBMIT_ANSWER"])
       ELSE Ignored("keydown", key)

PadButtons == {DigitChars[i + 1] : i \in {0, NonZeroDigit}} \cup {"Backspace", "Submit"}

\* NumberPad: a click on a button that is not disabled
PadClick(line, button) ==
    /\ mounted
    /\ ~highScorePending(line, state)
    /\ ~padDisabled(line, state)
    /\ IF IsDigit(button)
       THEN UIDispatch(line, "pad", [type |-> "UPDATE_ANSWER", digit |-> button])
       ELSE IF button = "Backspace"
       THEN UIDispatch(line, "pad", [type |-> "DELETE_DIGIT"])
       ELSE /\ streakBelowCap(line, state)
            /\ UIDispatch(line, "pad", [type |-> "SUBMIT_ANSWER"])

\* FeedbackModal's Next button (shown for an incorrect answer) and App's handleNext
ModalNext(line) ==
    /\ line = Streak
    /\ mounted
    /\ ~highScorePending(line, state)
    /\ state.showFeedback /\ state.isAnswerCorrect # "true"
    /\ \E newProblem \in generateProblem(gameConfig) :
          LET action == [type |-> "NEXT_PROBLEM", problem |-> newProblem]
          IN  /\ state' = Reduce(line, state, action)
              /\ timers' = renderTimers(state', timers)
              /\ slide' = renderSlide(line, state', [slide EXCEPT !.showAnswerInPlace = FALSE])
              /\ last' = Event("modal", action)
    /\ UNCHANGED <<storage, mounted, gameConfig, frame, settings, settingsItem>>
    /\ hint' = tenFrameEffect(state.currentProblem, state'.currentProblem, hint)

RemoveAt(seq, i) == SubSeq(seq, 1, i - 1) \o SubSeq(seq, i + 1, Len(seq))

ResetTimersPending == Len(SelectSeq(timers, LAMBDA t : t.kind = "reset"))

\* the first timer of the effect fires: slide out, nextProblem(), slide in, and
\* the nested timer is scheduled
SlideTimerFires(line) ==
    \E i \in 1..Len(timers) :
        /\ timers[i].kind = "slide"
        /\ ~highScorePending(line, state)
        /\ ResetTimersPending < MaxResetTimers
        /\ \E newProblem \in generateProblem(gameConfig) :
              LET action == [type |-> "NEXT_PROBLEM", problem |-> newProblem]
              IN  /\ state' = IF mounted THEN Reduce(line, state, action) ELSE state
                  /\ last' = Event("slideTimer", action)
        /\ LET scheduled == Append(RemoveAt(timers, i), ResetTimer(line))
               slid == [ isSlideOut |-> TRUE, isSlideIn |-> TRUE,
                         showAnswerInPlace |-> FALSE,
                         slidingOutProblem |-> timers[i].captured ]
           IN  /\ timers' = IF mounted THEN renderTimers(state', scheduled) ELSE scheduled
               /\ slide' = IF mounted THEN renderSlide(line, state', slid) ELSE slide
        /\ UNCHANGED <<storage, mounted, gameConfig, frame, settings, settingsItem>>
        /\ hint' = tenFrameEffect(state.currentProblem, state'.currentProblem, hint)

\* the nested timer fires: the slide flags are cleared
ResetTimerFires(line) ==
    \E i \in 1..Len(timers) :
        /\ timers[i].kind = "reset"
        /\ ~highScorePending(line, state)
        /\ LET cleared == [slide EXCEPT !.isSlideOut = FALSE, !.isSlideIn = FALSE,
                                        !.slidingOutProblem = Null]
           IN  /\ timers' = IF mounted THEN renderTimers(state, RemoveAt(timers, i))
                            ELSE RemoveAt(timers, i)
               /\ slide' = IF mounted THEN renderSlide(line, state, cleared) ELSE slide
        /\ last' = Event("resetTimer", NoAction)
        /\ UNCHANGED <<state, storage, mounted, gameConfig, frame, settings, settingsItem>>
        /\ hint' = tenFrameEffect(state.currentProblem, state'.currentProblem, hint)

\* a render of App for any other reason (activeKey, settings, sound)
Rerender(line) ==
    /\ mounted
    /\ ~highScorePending(line, state)
    /\ timers' = renderTimers(state, timers)
    /\ slide' = renderSlide(line, state, slide)
    /\ last' = Event("render", NoAction)
    /\ UNCHANGED <<state, storage, mounted, gameConfig, frame, settings, settingsItem>>
    /\ hint' = tenFrameEffect(state.currentProblem, state'.currentProblem, hint)

\* App is torn down: the effect's cleanup runs
Unmount(line) ==
    /\ mounted
    /\ ~highScorePending(line, state)
    /\ mounted' = FALSE
    /\ timers' = cleanupTimers(timers)
    /\ last' = Event("unmount", NoAction)
    /\ UNCHANGED <<state, storage, slide, gameConfig, frame, settings, settingsItem>>
    /\ hint' = tenFrameEffect(state.currentProblem, state'.currentProblem, hint)

\* the high-score effect inside App: its dispatch renders App again
AppHighScoreEffect(line) ==
    /\ mounted
    /\ highScorePending(line, state)
    /\ \E outcome \in saveStored(storage, state.streak) :
          LET action == [type |-> "SET_HIGH_SCORE", score |-> state.streak]
          IN  /\ storage' = outcome.item
              /\ last' = Event("effect", action)
              /\ IF outcome.threw
                 THEN \* the error leaves the effect and React removes the tree
                      /\ state' = state
                      /\ mounted' = FALSE
                      /\ timers' = cleanupTimers(timers)
                      /\ slide' = slide
                 ELSE /\ state' = Reduce(line, state, action)
                      /\ mounted' = mounted
                      /\ timers' = renderTimers(state', timers)
                      /\ slide' = renderSlide(line, state', slide)
    /\ UNCHANGED <<gameConfig, frame, settings, settingsItem>>
    /\ hint' = tenFrameEffect(state.currentProblem, state'.currentProblem, hint)

----------------------------------------------------------------------------
(* Specifications *)

\* the hook of the celebration line under arbitrary callers
HookInit == InitLine(Celebration)
HookNextCelebration == HookNext(Celebration)
HookSpec == HookInit /\ [][HookNextCelebration]_vars

\* the hook of the streak line under arbitrary callers
StreakHookInit == InitLine(Streak)
StreakHookNext == HookNext(Streak) \/ highScoreEffect(Streak)
StreakHookSpec == StreakHookInit /\ [][StreakHookNext]_vars

\* the configurations the generator is given: one operation, one unknown
\* position, two operands, and the three bounds
GenConfigs ==
    { [ operations |-> {operation},
        operandCount |-> 2,
        unknownPositions |-> {unknownPosition},
        constraints |-> [ maxResult |-> maxResult,
                          minOperand |-> minOperand,
                          maxOperand |-> maxOperand ] ] :
      operation \in {"addition", "subtraction", "multiplication", "division"},
      unknownPosition \in {"result", "operand-0", "operand-1"},
      maxResult \in 0..MaxGenResult,
      minOperand \in 0..MaxGenMinOperand,
      maxOperand \in 0..MaxGenOperand }

\* the configurations whose operand range is not empty
WellFormedConfigs ==
    { c \in GenConfigs : c.constraints.minOperand <= c.constraints.maxOperand }

\* the generator under the hook: the first problem, then one problem per advance
GenInit == InitWith(Celebration, WellFormedConfigs)
GenNext == nextProblem(Celebration)
GenSpec == GenInit /\ [][GenNext]_vars

\* generateAdditionOperands run iteration by iteration for an addition
\* configuration; the game state takes no part in the call
AdditionConfigs ==
    { c \in WellFormedConfigs : c.operations = {"addition"}
                                /\ c.unknownPositions = {"result"} }

LoopInit ==
    /\ gameConfig \in AdditionConfigs
    /\ storage = [kind |-> "absent", value |-> 0]
    /\ state = initialGameState(CHOOSE problem \in generateProblem(gameConfig) : TRUE)
    /\ mounted = TRUE
    /\ timers = <<>>
    /\ slide = initialSlide
    /\ frame = enteredFrame
    /\ hint = FALSE
    /\ settingsItem = [kind |-> "absent", value |-> DEFAULT_SETTINGS]
    /\ settings = loadSettings(settingsItem).value
    /\ last = Started("init")

\* the loop body runs once more
DrawOperands ==
    /\ frame.pc = "loop"
    /\ frame' \in additionLoopStep(gameConfig, frame)
    /\ last' = Event("draw", NoAction)
    /\ UNCHANGED <<state, storage, mounted, timers, slide, gameConfig, settings,
                   settingsItem>>
    /\ hint' = tenFrameEffect(state.currentProblem, state'.currentProblem, hint)

\* return [operand1, operand2]
ReturnOperands ==
    /\ frame.pc = "return"
    /\ frame' = [frame EXCEPT !.pc = "returned"]
    /\ last' = Event("return", NoAction)
    /\ UNCHANGED <<state, storage, mounted, timers, slide, gameConfig, settings,
                   settingsItem>>
    /\ hint' = tenFrameEffect(state.currentProblem, state'.currentProblem, hint)

LoopNext == DrawOperands \/ ReturnOperands
LoopSpec == LoopInit /\ [][LoopNext]_vars

\* the loop body is run again as long as the loop has not been left
FairLoopSpec == LoopSpec /\ WF_vars(DrawOperands) /\ WF_vars(ReturnOperands)

\* generateAdditionOperands for more than two operands, run statement by
\* statement; the game state takes no part in the call
SequentialConfigs ==
    { c \in [ operations : {{"addition"}},
              operandCount : 3..MaxOperandCount,
              unknownPositions : {{"result"}},
              constraints : [ maxResult : 0..MaxSeqResult,
                              minOperand : 0..MaxGenMinOperand,
                              maxOperand : 0..MaxGenOperand ] ] :
      c.constraints.minOperand <= c.constraints.maxOperand }

\* const operands = []; let remainingSum = maxResult
SequentialInit ==
    /\ gameConfig \in SequentialConfigs
    /\ storage = [kind |-> "absent", value |-> 0]
    /\ state = initialGameState(CHOOSE problem \in generateProblem(gameConfig) : TRUE)
    /\ mounted = TRUE
    /\ timers = <<>>
    /\ slide = initialSlide
    /\ frame = [pc |-> "loop", operands |-> <<>>,
                remainingSum |-> gameConfig.constraints.maxResult]
    /\ hint = FALSE
    /\ settingsItem = [kind |-> "absent", value |-> DEFAULT_SETTINGS]
    /\ settings = loadSettings(settingsItem).value
    /\ last = Started("init")

\* one iteration of the for loop; after the last one the array is to be sorted
AllocateOperand ==
    /\ frame.pc = "loop"
    /\ \E next \in pushOperand(gameConfig, frame.operands, frame.remainingSum) :
          frame' = [pc |-> IF Len(next[1]) < gameConfig.operandCount
                           THEN "loop" ELSE "sort",
                    operands |-> next[1],
                    remainingSum |-> next[2]]
    /\ last' = Event("allocate", NoAction)
    /\ UNCHANGED <<state, storage, mounted, timers, slide, gameConfig, settings,
                   settingsItem>>
    /\ hint' = tenFrameEffect(state.currentProblem, state'.currentProblem, hint)

\* return operands.sort(() => Math.random() - 0.5)
ShuffleOperands ==
    /\ frame.pc = "sort"
    /\ \E shuffled \in shuffle(frame.operands) :
          frame' = [frame EXCEPT !.pc = "returned", !.operands = shuffled]
    /\ last' = Event("sort", NoAction)
    /\ UNCHANGED <<state, storage, mounted, timers, slide, gameConfig, settings,
                   settingsItem>>
    /\ hint' = tenFrameEffect(state.currentProblem, state'.currentProblem, hint)

SequentialNext == AllocateOperand \/ ShuffleOperands
SequentialSpec == SequentialInit /\ [][SequentialNext]_vars

\* the App of unnamed/part_011 over the celebration line
AppInit == InitLine(Celebration)
AppNext ==
    \/ \E key \in Keys : KeyDown(Celebration, key)
    \/ \E button \in PadButtons : PadClick(Celebration, button)
    \/ SlideTimerFires(Celebration)
    \/ ResetTimerFires(Celebration)
    \/ Rerender(Celebration)
    \/ Unmount(Celebration)
AppSpec == AppInit /\ [][AppNext]_vars

\* a pending timer fires once its delay has elapsed
FairAppSpec ==
    /\ AppSpec
    /\ WF_vars(SlideTimerFires(Celebration))
    /\ WF_vars(ResetTimerFires(Celebration))

\* the same App with the hook's actions also called directly by other callers
DirectCall(line, action) ==
    /\ mounted
    /\ ~highScorePending(line, state)
    /\ UIDispatch(line, "hook", action)

DirectNext ==
    \/ AppNext
    \/ \E digit \in Payloads :
          DirectCall(Celebration, [type |-> "UPDATE_ANSWER", digit |-> digit])
    \/ DirectCall(Celebration, [type |-> "DELETE_DIGIT"])
    \/ DirectCall(Celebration, [type |-> "SUBMIT_ANSWER"])
DirectSpec == AppInit /\ [][DirectNext]_vars

\* App.tsx over the streak line
StreakAppInit == InitLine(Streak)
StreakAppNext ==
    \/ \E key \in Keys : KeyDown(Streak, key)
    \/ \E button \in PadButtons : PadClick(Streak, button)
    \/ ModalNext(Streak)
    \/ SlideTimerFires(Streak)
    \/ Rerender(Streak)
    \/ Unmount(Streak)
    \/ AppHighScoreEffect(Streak)
StreakAppSpec == StreakAppInit /\ [][StreakAppNext]_vars

\* a first visit (no high score stored): the slide timer fires once its delay
\* has elapsed, and the high-score effect runs after the render that left it
\* pending
FreshStreakAppInit == StreakAppInit /\ storage.kind = "absent"
FreshStreakAppSpec == FreshStreakAppInit /\ [][StreakAppNext]_vars
FairStreakAppSpec ==
    /\ FreshStreakAppSpec
    /\ WF_vars(SlideTimerFires(Streak))
    /\ WF_vars(AppHighScoreEffect(Streak))

----------------------------------------------------------------------------
(* The App of unnamed/part_011 with the ten-frame hint *)

\* the settings panel has selected two unknown positions

\* TenFrame's 'Show hint' button, rendered while the frame is hidden
ShowHint(line) ==
    /\ mounted
    /\ ~highScorePending(line, state)
    /\ state.currentProblem.operation = "addition"
    /\ Len(state.currentProblem.operands) = 2
    /\ ~hint
    /\ hint' = TRUE
    /\ last' = Event("hint", NoAction)
    /\ UNCHANGED <<state, storage, mounted, timers, slide, gameConfig, frame, settings,
                   settingsItem>>

HintInit == InitWith(Celebration, {GameConfig})
HintNext == AppNext \/ ShowHint(Celebration)
HintSpec == HintInit /\ [][HintNext]_vars

----------------------------------------------------------------------------
(* The settings controls: components/OperationsControl.tsx and the checkbox
   UnknownPositionControl of unnamed/part_003 *)

OPERATIONS == <<"addition", "subtraction", "multiplication", "division">>

POSITIONS == <<"result", "operand-0", "operand-1">>

\* Array.prototype.includes
includes(array, element) == \E i \in 1..Len(array) : array[i] = element

\* array.filter(e => e !== element)
without(array, element) == SelectSeq(array, LAMBDA e : e # element)

Range(array) == {array[i] : i \in 1..Len(array)}

\* handleCheckboxChange removing the operation without looking at the count
handleCheckboxChange_NoMinimum(selected, operation) ==
    IF includes(selected, operation) THEN {without(selected, operation)}
    ELSE {Append(selected, operation)}

\* OperationsControl.handleCheckboxChange: the arrays it passes to onChange
\* (none when it returns early)
handleCheckboxChange(selected, operation) ==
    IF includes(selected, operation)
    THEN IF Len(selected) = 1 THEN {}
         ELSE {without(selected, operation)}
    ELSE {Append(selected, operation)}

\* UnknownPositionControl.handleToggle: the arrays it passes to onChange
handleToggle(selected, position) ==
    IF includes(selected, position)
    THEN IF Len(selected) > 1 THEN {without(selected, position)} ELSE {}
    ELSE {Append(selected, position)}

\* the configuration the generator is given: App hands the settings to
\* useGameState
settingsConfig(s) ==
    [GameConfig EXCEPT !.operations = Range(s.operations),
                       !.unknownPositions = Range(s.unknownPositions)]

\* onChange of a control: updateSettings with the new selection; App renders
\* and useGameState takes the new configuration. Without a call nothing changes.
ChangeSelection(calls, field, action) ==
    /\ mounted
    /\ ~highScorePending(Streak, state)
    /\ IF calls = {}
       THEN UNCHANGED <<settings, settingsItem, gameConfig>>
       ELSE \E selection \in calls :
              LET next == Spread(settings, [f \in {field} |-> selection])
              IN  /\ settings' = next
                  /\ \E outcome \in saveSettings(settingsItem, next) :
                        settingsItem' = outcome.item
                  /\ gameConfig' = settingsConfig(next)
    /\ last' = Event("settings", action)
    /\ UNCHANGED <<state, storage, mounted, timers, slide, frame>>
    /\ hint' = tenFrameEffect(state.currentProblem, state'.currentProblem, hint)

\* a click on the checkbox of an operation
ToggleOperation(operation) ==
    ChangeSelection(handleCheckboxChange(settings.operations, operation), "operations",
                    [type |-> "TOGGLE_OPERATION", toggled |-> operation])

\* a click on the checkbox of an unknown position
TogglePosition(position) ==
    ChangeSelection(handleToggle(settings.unknownPositions, position), "unknownPositions",
                    [type |-> "TOGGLE_POSITION", toggled |-> position])

\* the settings panel opened on the default selection, in a browser whose
\* storage refuses access: the selection lives in memory only
ControlsInit ==
    /\ settingsItem = [kind |-> "denied", value |-> DEFAULT_SETTINGS]
    /\ settings = Spread(loadSettings(settingsItem).value,
                         [f \in {"operations", "unknownPositions"} |->
                             IF f = "operations" THEN <<OPERATIONS[1]>>
                             ELSE <<POSITIONS[1]>>])
    /\ gameConfig = settingsConfig(settings)
    /\ storage = [kind |-> "absent", value |-> 0]
    /\ \E problem \in generateProblem(gameConfig) :
          state = Streak_initialGameState(problem, loadStored(storage, 0))
    /\ mounted = TRUE
    /\ timers = <<>>
    /\ slide = initialSlide
    /\ frame = idleFrame
    /\ hint = FALSE
    /\ last = Started("init")

ControlsNext ==
    \/ \E operation \in Range(OPERATIONS) : ToggleOperation(operation)
    \/ \E position \in Range(POSITIONS) : TogglePosition(position)
ControlsSpec == ControlsInit /\ [][ControlsNext]_vars

----------------------------------------------------------------------------
(* Sessions of the streak line over a storage that may fail *)

\* the updates the settings panel makes
SettingsUpdates ==
    {[darkMode |-> b] : b \in BOOLEAN} \cup {[soundEnabled |-> b] : b \in BOOLEAN}

\* useSettings.updateSettings: the updater merges, writes and returns the merge
updateSettings(updates) ==
    /\ mounted
    /\ LET next == Spread(settings, updates)
       IN  \E outcome \in saveSettings(settingsItem, next) :
              /\ settingsItem' = outcome.item
              /\ IF outcome.threw
                 THEN \* the error leaves the updater and React removes the tree
                      settings' = settings /\ mounted' = FALSE
                 ELSE settings' = next /\ mounted' = mounted
    /\ last' = Event("settings", [type |-> "UPDATE_SETTINGS", updates |-> updates])
    /\ UNCHANGED <<state, storage, timers, slide, gameConfig, frame>>
    /\ hint' = tenFrameEffect(state.currentProblem, state'.currentProblem, hint)

\* useSettings.resetSettings: the defaults, and the key removed if storage allows
resetSettings ==
    /\ mounted
    /\ settings' = DEFAULT_SETTINGS
    /\ settingsItem' \in
          IF settingsItem.kind = "denied" THEN {settingsItem}
          ELSE {[kind |-> "absent", value |-> DEFAULT_SETTINGS], settingsItem}
    /\ last' = Event("settings", [type |-> "RESET_SETTINGS"])
    /\ UNCHANGED <<state, storage, mounted, timers, slide, gameConfig, frame>>
    /\ hint' = tenFrameEffect(state.currentProblem, state'.currentProblem, hint)

\* the page is loaded over whatever the two keys hold
LoadInit ==
    /\ gameConfig = GameConfig
    /\ storage \in StoredItems \cup FailingItems
    /\ settingsItem \in SettingsItems
    /\ \E problem \in generateProblem(gameConfig) :
          state = Streak_initialGameState(problem, readStored(storage, 0).value)
    /\ settings = loadSettings(settingsItem).value
    /\ mounted = ~(readStored(storage, 0).threw \/ loadSettings(settingsItem).threw)
    /\ timers = <<>>
    /\ slide = initialSlide
    /\ frame = idleFrame
    /\ hint = FALSE
    /\ last = Started("init")

\* the page is loaded again: both hooks read their keys anew
Reload ==
    /\ ~highScorePending(Streak, state)
    /\ \E problem \in generateProblem(gameConfig) :
          state' = Streak_initialGameState(problem, readStored(storage, 0).value)
    /\ settings' = loadSettings(settingsItem).value
    /\ mounted' = ~(readStored(storage, 0).threw \/ loadSettings(settingsItem).threw)
    /\ last' = [action |-> NoAction, event |-> "reload", pre |-> state,
                wasMounted |-> mounted, preSettings |-> settings,
                loaded |-> highScoreOf(state'), best |-> 0]
    /\ UNCHANGED <<storage, settingsItem, timers, slide, gameConfig, frame>>
    /\ hint' = FALSE

\* loading and the settings panel, the game left alone
LoadNext ==
    \/ Reload
    \/ \E updates \in SettingsUpdates : updateSettings(updates)
    \/ resetSettings
LoadSpec == LoadInit /\ [][LoadNext]_vars

\* play and the dark-mode toggle switched on, over two keys whose writes may fail
SaveInit ==
    /\ LoadInit
    /\ storage.kind = "absent"
    /\ settingsItem.kind \in {"absent", "denied"}
SaveNext ==
    \/ StreakHookNext
    \/ updateSettings([darkMode |-> TRUE])
SaveSpec == SaveInit /\ [][SaveNext]_vars

\* sessions of play over a high-score key that may fail, the settings left alone
SessionInit ==
    /\ LoadInit
    /\ storage.kind \in {"absent", "number", "denied"}
    /\ settingsItem.kind = "absent"
SessionNext == StreakHookNext \/ Reload
SessionSpec == SessionInit /\ [][SessionNext]_vars

----------------------------------------------------------------------------
(* Claims *)

Pre == last.pre
Dispatched == last.action.type
Changed == state # Pre

RECURSIVE Pow10(_)
Pow10(n) == IF n = 0 THEN 1 ELSE 10 * Pow10(n - 1)

\* the number a text of decimal digits denotes, position by position
RECURSIVE DecimalSum(_, _)
DecimalSum(text, i) ==
    IF i > Len(text) THEN 0
    ELSE DigitValue(text[i]) * Pow10(Len(text) - i) + DecimalSum(text, i + 1)

Denotes(text) == DecimalSum(text, 1)

C2_WitnessCorrect ==
    /\ Dispatched = "SUBMIT_ANSWER"
    /\ Pre.celebrationPhase = Null
    /\ Len(Pre.currentAnswer) > 1
    /\ state.isAnswerCorrect = "true"

C4_Advance ==
    Dispatched = "NEXT_PROBLEM" =>
        /\ state.currentProblem = last.action.problem
        /\ state.currentProblem \in generateProblem(gameConfig)
        /\ state.currentAnswer = <<>>
        /\ state.isAnswerCorrect = Null
        /\ state.celebrationPhase = Null
        /\ state.streak = IF Pre.isAnswerCorrect = "false" THEN 0 ELSE Pre.streak
        /\ state.highScore = Pre.highScore

\* advance after a correct answer, from 'revealing', replaced the problem and kept the streak
C4_Witness ==
    /\ Dispatched = "NEXT_PROBLEM"
    /\ Pre.isAnswerCorrect = "true"
    /\ Pre.celebrationPhase = "revealing"
    /\ Pre.streak > 0
    /\ state.streak = Pre.streak
    /\ state.currentProblem # Pre.currentProblem

\* advance after an incorrect answer reset a running streak
C4_WitnessReset ==
    /\ Dispatched = "NEXT_PROBLEM"
    /\ Pre.isAnswerCorrect = "false"
    /\ Pre.streak > 0
    /\ state.streak = 0

\* C5: no step makes highScore smaller than it was.
C5_HighScoreMonotonic == state.highScore >= Pre.highScore

\* the high score loaded from storage was raised by the effect
C5_Witness ==
    /\ Dispatched = "SET_HIGH_SCORE"
    /\ Pre.highScore > 0
    /\ state.highScore > Pre.highScore

\* C6: streak <= highScore holds in the state reached after every advance.
C6_StreakWithinHighScore ==
    Dispatched = "NEXT_PROBLEM" => state.streak <= state.highScore

\* an advance kept a streak that equals the high score it has just raised
C6_Witness ==
    /\ Dispatched = "NEXT_PROBLEM"
    /\ state.streak > 0
    /\ state.streak = state.highScore

SlideTimersPending == Len(SelectSeq(timers, LAMBDA t : t.kind = "slide"))

\* the orchestrator's advance has run: idle again, the generated problem
\* installed, the answer empty
AdvancedByTimer ==
    /\ last.event = "slideTimer"
    /\ state.celebrationPhase = Null
    /\ state.currentProblem = last.action.problem
    /\ state.currentAnswer = <<>>
    /\ state.isAnswerCorrect = Null

C8_OneChain ==
    /\ SlideTimersPending <= 1
    /\ SlideTimersPending = 1 <=> (mounted /\ state.celebrationPhase = "revealing")
    /\ last.event = "slideTimer" =>
          /\ Pre.celebrationPhase = "revealing"
          /\ state.celebrationPhase = Null
          /\ SlideTimersPending = 0
    /\ (state.celebrationPhase = "revealing" /\ Pre.celebrationPhase # "revealing") =>
          Dispatched = "SUBMIT_ANSWER" /\ Pre.celebrationPhase = Null

\* App rendered again during 'revealing' and still exactly one advance timer is pending
C8_Witness ==
    /\ last.event = "render"
    /\ state.celebrationPhase = "revealing"
    /\ SlideTimersPending = 1

C10_UpdateAnswerNoOp ==
    (Dispatched = "UPDATE_ANSWER" /\ Pre.celebrationPhase # Null) => state = Pre

\* C10, amended: while celebrationPhase is not idle the keyboard listener and the
\* number pad call no action, so no digit is appended through them between an
\* accepted submit and the following advance; a step that appends a digit in that
\* phase is a direct call of updateAnswer.
C10_InputGated ==
    /\ (last.event \in {"keydown", "pad"} /\ Pre.celebrationPhase # Null) =>
          Dispatched = "none" /\ state = Pre
    /\ (Pre.celebrationPhase # Null /\ Len(state.currentAnswer) > Len(Pre.currentAnswer)) =>
          last.event = "hook"

\* a digit key was pressed during 'revealing' with room left in the answer
C10_Witness ==
    /\ last.event = "keydown"
    /\ Pre.celebrationPhase = "revealing"
    /\ Len(Pre.currentAnswer) < MAX_ANSWER_LENGTH
    /\ Dispatched = "none"
    /\ IsDigit(last.action.key)
    /\ state = Pre

\* C11: currentAnswer holds decimal digits only and at most MAX_ANSWER_LENGTH of
\* them; updateAnswer with a non-digit payload or on a full answer leaves the
\* state unchanged, and otherwise appends exactly the given digit at the end and
\* changes nothing else.
C11_AnswerDigitsBounded ==
    /\ Len(state.currentAnswer) <= MAX_ANSWER_LENGTH
    /\ \A i \in 1..Len(state.currentAnswer) : IsDigit(state.currentAnswer[i])
    /\ Dispatched = "UPDATE_ANSWER" =>
          IF \/ last.action.digit \notin {DigitChars[i] : i \in 1..10}
             \/ Len(Pre.currentAnswer) = MAX_ANSWER_LENGTH
          THEN state = Pre
          ELSE state = [Pre EXCEPT !.currentAnswer = Pre.currentAnswer \o <<last.action.digit>>]

\* updateAnswer was called with a digit on an answer of full length
C11_Witness ==
    /\ Dispatched = "UPDATE_ANSWER"
    /\ IsDigit(last.action.digit)
    /\ Len(Pre.currentAnswer) = MAX_ANSWER_LENGTH

\* updateAnswer was called with a payload that is not a single digit
C11_WitnessNonDigit ==
    /\ Dispatched = "UPDATE_ANSWER"
    /\ last.action.digit = "12"
    /\ Len(Pre.currentAnswer) < MAX_ANSWER_LENGTH

\* C12: deleteDigit removes exactly the last character of currentAnswer and
\* changes nothing else; on an empty answer the state stays as it was.
C12_DeleteLast ==
    Dispatched = "DELETE_DIGIT" =>
        IF Pre.currentAnswer = <<>>
        THEN state = Pre
        ELSE /\ Len(state.currentAnswer) = Len(Pre.currentAnswer) - 1
             /\ \A i \in 1..Len(state.currentAnswer) :
                    state.currentAnswer[i] = Pre.currentAnswer[i]
             /\ state = [Pre EXCEPT !.currentAnswer = state.currentAnswer]

\* deleteDigit was called on an answer of two or more digits
C12_Witness ==
    /\ Dispatched = "DELETE_DIGIT"
    /\ Len(Pre.currentAnswer) >= 2

\* deleteDigit was called on the empty answer
C12_WitnessEmpty ==
    /\ Dispatched = "DELETE_DIGIT"
    /\ Pre.currentAnswer = <<>>

\* C13: submit with an empty currentAnswer leaves GameState unchanged in every
\* phase: nothing is evaluated and the phase does not move.
C13_EmptySubmitRejected ==
    (Dispatched = "SUBMIT_ANSWER" /\ Pre.currentAnswer = <<>>) => state = Pre

\* submit was called on the empty answer in idle
C13_Witness ==
    /\ Dispatched = "SUBMIT_ANSWER"
    /\ Pre.currentAnswer = <<>>
    /\ Pre.celebrationPhase = Null

\* submit was called on the empty answer during 'revealing'
C13_WitnessRevealing ==
    /\ Dispatched = "SUBMIT_ANSWER"
    /\ Pre.currentAnswer = <<>>
    /\ Pre.celebrationPhase = "revealing"

----------------------------------------------------------------------------
(* Claims about the problem generator *)

\* the problem the generator returned last
Generated == state.currentProblem

Constraints == gameConfig.constraints

IsFinite(x) == x.den # 0

Plus(x, y) == Divide(x.num * y.den + y.num * x.den, x.den * y.den)

Minus(x, y) == Divide(x.num * y.den - y.num * x.den, x.den * y.den)

Times(x, y) == Divide(x.num * y.num, x.den * y.den)

Over(x, y) == Divide(x.num * y.den, x.den * y.num)

\* the operation carried out over two operands
Apply(operation, operands) ==
    CASE operation = "addition" -> Plus(operands[1], operands[2])
      [] operation = "subtraction" -> Minus(operands[1], operands[2])
      [] operation = "multiplication" -> Times(operands[1], operands[2])
      [] operation = "division" -> Over(operands[1], operands[2])

AllFinite(operands) == \A i \in 1..Len(operands) : IsFinite(operands[i])

\* what the display string shows after "="
Shown == Generated.displayString[5]

HidesOperand == Generated.unknownPosition # "result"

\* the operand in the unknown slot
Hidden == Generated.operands[unknownIndexOf(Generated.unknownPosition) + 1]

\* C14: with the answer in the unknown slot, the operation over the operands
\* equals the result the problem shows: the answer itself when the result is
\* hidden, the number after "=" when an operand is hidden
C14_AnswerFitsDisplay ==
    /\ AllFinite(Generated.operands)
    /\ IF HidesOperand
       THEN /\ Hidden = Generated.answer
            /\ Shown.kind = "number"
            /\ Apply(Generated.operation, Generated.operands) = Shown.value
       ELSE Apply(Generated.operation, Generated.operands) = Generated.answer

ResultUnknown(operation) ==
    Generated.operation = operation /\ Generated.unknownPosition = "result"

\* an operand that is a whole number of [minOperand, maxOperand]
InOperandRange(x) ==
    IsInteger(x) /\ Constraints.minOperand <= x.num /\ x.num <= Constraints.maxOperand

\* the configuration admits a pair of operands whose sum is within maxResult
AdmitsAddition ==
    /\ Constraints.minOperand <= Constraints.maxOperand
    /\ \E a, b \in Constraints.minOperand..Constraints.maxOperand :
           a + b <= Constraints.maxResult

\* C15: a 2-operand addition problem with the result unknown, generated from a
\* configuration with minOperand <= maxOperand that admits a valid pair, has a
\* sum of at most maxResult and both operands within [minOperand, maxOperand],
\* the fallback after the rejected draws included
C15_AdditionWithinConstraints ==
    ResultUnknown("addition") /\ AdmitsAddition =>
        /\ IsInteger(Generated.answer)
        /\ Generated.answer.num <= Constraints.maxResult
        /\ \A i \in 1..2 : InOperandRange(Generated.operands[i])

\* the result of the generated problem: the answer when the result is hidden,
\* the number shown after "=" when an operand is hidden
ProblemResult == IF HidesOperand THEN Shown.value ELSE Generated.answer

\* C16: in every generated division problem the divisor is not zero and the
\* dividend divided by the divisor is a whole number, the problem's result
C16_DivisionWhole ==
    Generated.operation = "division" =>
        LET dividend == Generated.operands[1]
            divisor == Generated.operands[2]
        IN  /\ IsFinite(dividend) /\ IsFinite(divisor)
            /\ divisor.num # 0
            /\ IsInteger(Over(dividend, divisor))
            /\ Over(dividend, divisor) = ProblemResult

\* C16 holds where the result is the unknown and fails where an operand is
C16_DivisionWholeResultUnknown ==
    ResultUnknown("division") =>
        /\ Generated.operands[2].num # 0
        /\ IsInteger(Over(Generated.operands[1], Generated.operands[2]))
        /\ Over(Generated.operands[1], Generated.operands[2]) = Generated.answer

\* C17: a 2-operand multiplication problem with the result unknown has a
\* product of at most maxResult, whatever first factor of
\* [minOperand, maxOperand] was drawn, zero included
C17_ProductWithinMaxResult ==
    ResultUnknown("multiplication") =>
        /\ Generated.answer = Times(Generated.operands[1], Generated.operands[2])
        /\ IsInteger(Generated.answer)
        /\ Generated.answer.num <= Constraints.maxResult

\* C17 for configurations whose minOperand is 0, where it holds
C17_ProductWithinMaxResultFromZero ==
    ResultUnknown("multiplication") /\ Constraints.minOperand = 0 =>
        Generated.answer.num <= Constraints.maxResult

\* C18: a 2-operand subtraction problem with the result unknown has an answer,
\* minuend minus subtrahend, that is not negative and at most maxResult, also
\* when the minuend was clamped to maxOperand
C18_DifferenceWithinMaxResult ==
    ResultUnknown("subtraction") =>
        /\ Generated.answer = Minus(Generated.operands[1], Generated.operands[2])
        /\ IsInteger(Generated.answer)
        /\ 0 <= Generated.answer.num
        /\ Generated.answer.num <= Constraints.maxResult

\* C18 for configurations whose minOperand is at most maxResult, where it holds
C18_DifferenceWithinMaxResultOrdered ==
    ResultUnknown("subtraction") /\ Constraints.minOperand <= Constraints.maxResult =>
        /\ 0 <= Generated.answer.num
        /\ Generated.answer.num <= Constraints.maxResult

\* a subtraction problem whose minuend was clamped to maxOperand
C18_WitnessClamped ==
    /\ ResultUnknown("subtraction")
    /\ Constraints.minOperand <= Constraints.maxResult
    /\ Generated.operands[1] = Num(Constraints.maxOperand)
    /\ Generated.operands[2].num + Constraints.maxResult > Constraints.maxOperand
    /\ Generated.answer.num < Constraints.maxResult

\* C19: every operand of every generated problem is a whole number of
\* [minOperand, maxOperand], the dividend of a division and the minuend of a
\* subtraction included
C19_OperandsWithinRange ==
    \A i \in 1..Len(Generated.operands) : InOperandRange(Generated.operands[i])

\* a division problem with the result unknown whose dividend exceeds maxOperand
C19_WitnessDividend ==
    /\ ResultUnknown("division")
    /\ Generated.operands[1].num > Constraints.maxOperand
    /\ InOperandRange(Generated.operands[2])

\* C20: in a generated problem whose unknown is an operand, the answer is a
\* whole number of [minOperand, maxOperand] and no division by zero produced
\* it: no candidate with an out-of-range, fractional or non-finite unknown is
\* returned
C20_HiddenOperandValid ==
    HidesOperand =>
        /\ IsFinite(Generated.answer)
        /\ InOperandRange(Generated.answer)

\* a problem whose hidden operand came from a division by zero
C20_WitnessDivisionByZero ==
    HidesOperand /\ ~IsFinite(Generated.answer)

\* a problem whose hidden operand is a fraction
C20_WitnessFraction ==
    HidesOperand /\ Generated.answer.den > 1

----------------------------------------------------------------------------
(* Claims about advancing to the next problem *)

\* the ordered operand pairs that are valid for addition under the configuration
ValidAdditionPairs ==
    { <<a, b>> \in (Constraints.minOperand..Constraints.maxOperand)
                   \X (Constraints.minOperand..Constraints.maxOperand) :
          a + b <= Constraints.maxResult }

\* the last step installed a problem
Advanced == Dispatched = "NEXT_PROBLEM"

\* C21: after an addition problem (a, b), under a configuration admitting more
\* than one valid pair, the problem installed by the next advance does not have
\* the same ordered operand pair
C21_NoRepeat ==
    /\ Advanced
    /\ Pre.currentProblem.operation = "addition"
    /\ Pre.currentProblem.unknownPosition = "result"
    /\ Cardinality(ValidAdditionPairs) > 1
    => Generated.operands # Pre.currentProblem.operands

----------------------------------------------------------------------------
(* Claims about the generator's loops *)

\* the loop is still running only while fewer than 101 draws were made
DrawsBounded ==
    /\ frame.attempts <= MAX_ATTEMPTS + 1
    /\ frame.pc = "loop" => frame.attempts <= MAX_ATTEMPTS

\* what the loop returns is what generateAdditionOperands can return
ReturnsGenerated ==
    frame.pc = "returned" =>
        <<frame.operand1, frame.operand2>> \in generateAdditionOperands(gameConfig)

\* C22: generateAdditionOperands terminates for every configuration: its
\* rejection loop draws at most 101 times, the 101st draw taking the fallback,
\* and the call returns
C22_TerminatesWithinBudget == []DrawsBounded /\ <>(frame.pc = "returned")

\* the fallback was taken after 100 rejected draws and the call returned
C22_Witness ==
    /\ frame.pc = "returned"
    /\ frame.attempts = MAX_ATTEMPTS + 1

\* the hidden operands the generator can derive under the configuration
DerivableHidden ==
    UNION { { calculateUnknownOperand(operation, generatedOperands,
                                      unknownIndexOf(unknownPosition),
                                      generatedOperands[unknownIndexOf(unknownPosition) + 1])
              : generatedOperands \in generateOperands(gameConfig, operation) }
            : operation \in gameConfig.operations,
              unknownPosition \in gameConfig.unknownPositions \ {"result"} }

\* no hidden operand the generator can derive satisfies the configuration
NoFeasibleHidden ==
    \A x \in DerivableHidden : ~(IsFinite(x) /\ InOperandRange(x))

\* the generator handed a problem to its caller
ReturnedProblem ==
    Generated.operation \in {"addition", "subtraction", "multiplication", "division"}

\* C23: when no hidden operand can satisfy the configuration, the generator
\* reports a failure to its caller: it does not return a problem, so none is
\* installed
C23_FailureReported ==
    HidesOperand /\ NoFeasibleHidden => ~ReturnedProblem

----------------------------------------------------------------------------
(* Claims about the display string *)

\* the places of the display string that hold "?"
QuestionMarks ==
    { i \in 1..Len(Generated.displayString) : Generated.displayString[i].kind = "?" }

\* the place of the slot unknownPosition names: the operands are at the odd
\* places, the result is the last one
UnknownSlot ==
    CASE Generated.unknownPosition = "result" -> 5
      [] Generated.unknownPosition = "operand-0" -> 1
      [] Generated.unknownPosition = "operand-1" -> 3

\* C24: the display string of a generated problem holds exactly one "?", at
\* the slot unknownPosition names; the other operands are shown in order,
\* joined by the operation's symbol and followed by "="
C24_OneQuestionMark ==
    /\ Cardinality(QuestionMarks) = 1
    /\ QuestionMarks = {UnknownSlot}
    /\ \A i \in 1..2 :
           2 * i - 1 # UnknownSlot =>
               Generated.displayString[2 * i - 1] = Part("number", Generated.operands[i])
    /\ Generated.displayString[2].kind =
           (CASE Generated.operation = "addition" -> "+"
              [] Generated.operation = "subtraction" -> "-"
              [] Generated.operation = "multiplication" -> "x"
              [] Generated.operation = "division" -> "/")
    /\ Generated.displayString[4].kind = "="

\* a problem hiding its second operand has been installed by an advance
C24_Witness ==
    /\ Advanced
    /\ Generated.unknownPosition = "operand-1"
    /\ Generated.displayString[3].kind = "?"
    /\ Generated.displayString[1].kind = "number"

\* the last step read both keys: the page was loaded
Loaded == last.event \in {"init", "reload"}

\* C25: loading a persisted value never throws to the caller (the App is up
\* after every load) and returns the stored value when the key holds parseable
\* data, the default when the key is absent, does not parse or cannot be
\* accessed; for the high-score key and for the settings key (whose stored
\* fields are laid over the defaults).
C25_LoadNeverThrows ==
    Loaded =>
        /\ mounted
        /\ state.highScore = (IF storage.kind = "number" THEN storage.value ELSE 0)
        /\ IF settingsItem.kind = "object"
           THEN /\ \A f \in DOMAIN settingsItem.value :
                      settings[f] = settingsItem.value[f]
                /\ \A f \in DOMAIN DEFAULT_SETTINGS \ DOMAIN settingsItem.value :
                      settings[f] = DEFAULT_SETTINGS[f]
                /\ settingsItem.value \in UserSettings => settings = settingsItem.value
           ELSE settings = DEFAULT_SETTINGS

\* a reload over a high-score key that cannot be accessed and over settings
\* the panel wrote
C25_Witness ==
    /\ last.event = "reload"
    /\ mounted
    /\ storage.kind = "denied"
    /\ state.highScore = 0
    /\ settingsItem.kind = "object"
    /\ settings = settingsItem.value
    /\ settings # DEFAULT_SETTINGS

\* a load over a settings key whose text does not parse
C25_WitnessCorrupt ==
    /\ Loaded
    /\ mounted
    /\ settingsItem.kind = "corrupt"
    /\ storage.kind = "number"
    /\ state.highScore = storage.value
    /\ storage.value > 0

\* the high-score effect ran and its write did not reach the key
HighScoreWriteFailed ==
    /\ last.event = "effect"
    /\ storage # [kind |-> "number", value |-> Pre.streak]

\* updateSettings ran and its write did not reach the key
SettingsWriteFailed ==
    /\ last.event = "settings"
    /\ last.action.type = "UPDATE_SETTINGS"
    /\ settingsItem #
          [kind |-> "object", value |-> Spread(last.preSettings, last.action.updates)]

\* C26: a failing save never propagates an error (the App stays up) and never
\* damages the in-memory state: after the failed write the value in memory is
\* the value that was being saved and the rest of the state is what a
\* successful write leaves, so the same game actions are enabled.
C26_FailedSaveHarmless ==
    /\ HighScoreWriteFailed =>
          /\ mounted
          /\ state = [Pre EXCEPT !.highScore = Pre.streak]
          /\ settings = last.preSettings
    /\ SettingsWriteFailed =>
          /\ mounted
          /\ settings = Spread(last.preSettings, last.action.updates)
          /\ state = Pre

\* the quota is exceeded while a new high score is written
C26_Witness ==
    /\ HighScoreWriteFailed
    /\ storage.kind = "number"
    /\ storage.value < Pre.streak
    /\ state.highScore = Pre.streak
    /\ mounted

\* access is denied while a changed setting is written
C26_WitnessSettings ==
    /\ SettingsWriteFailed
    /\ settingsItem.kind = "denied"
    /\ settings # last.preSettings
    /\ mounted

\* no high-score update is pending
HighScoreSettled == ~highScorePending(Streak, state)

\* the highest streak reached in the session so far
SessionBest == Max(last.best, state.streak)

\* what a load of the high-score key returns
Persisted == loadStored(storage, 0)

\* the step made no high-score write that failed
WritesSucceed ==
    last'.event = "effect" => storage' = [kind |-> "number", value |-> state.streak]

\* C27: highScore is the maximum streak ever achieved: whenever no update is
\* pending it is the larger of the value loaded at session start and the
\* highest streak of the session; the persisted high score equals it as long
\* as writes succeed; a session starts with the persisted value.
C27_HighScoreIsMaximum ==
    /\ [](HighScoreSettled => state.highScore = Max(last.loaded, SessionBest))
    /\ [](Loaded => state.highScore = Persisted /\ last.loaded = Persisted)
    /\ [][WritesSucceed /\ state.highScore = Persisted
            => (HighScoreSettled' => state'.highScore = Persisted')]_vars

\* a streak beyond the loaded high score was reached, written and then lost to
\* an incorrect answer
C27_Witness ==
    /\ HighScoreSettled
    /\ last.loaded < SessionBest
    /\ state.streak < SessionBest
    /\ state.highScore = SessionBest
    /\ Persisted = SessionBest

\* a session that started from a high score an earlier session wrote
C27_WitnessReload ==
    /\ last.event = "reload"
    /\ state.highScore > 0
    /\ state.highScore = Persisted
    /\ state.streak = 0

\* a cosmetic slide flag is still set
SlideFlagsSet ==
    slide.isSlideOut \/ slide.isSlideIn \/ slide.slidingOutProblem # Null

\* C28: after the orchestrator has fired advance, the slide flags (isSlideOut,
\* isSlideIn, slidingOutProblem) are cleared once the transition delay has
\* elapsed in every run in which the component stays mounted: while App is
\* mounted and a flag is still set, the timer that clears the flags is pending;
\* and the clearing step leaves GameState unchanged.
C28_SlideFlagsCleared ==
    /\ mounted /\ SlideFlagsSet => ResetTimersPending > 0
    /\ last.event = "resetTimer" => state = Pre

\* the last step wrote another value into celebrationPhase
PhaseChanged == state.celebrationPhase # Pre.celebrationPhase

PhaseStep == <<Pre.celebrationPhase, state.celebrationPhase>>

\* C29: every step that changes celebrationPhase follows the cycle idle ->
\* revealing -> transitioning -> idle; the phase leaves idle only through an
\* accepted submit, and it is written only by the orchestrator's chain and by
\* the reducer's reset on advance.
C29_FollowsCycle ==
    PhaseChanged =>
        /\ PhaseStep \in { <<Null, "revealing">>, <<"revealing", "transitioning">>,
                           <<"transitioning", Null>> }
        /\ Pre.celebrationPhase = Null =>
              Dispatched = "SUBMIT_ANSWER" /\ Pre.currentAnswer # <<>>
        /\ Pre.celebrationPhase # Null => last.event \in {"slideTimer", "resetTimer"}

\* C29 as the code has it: celebrationPhase changes only from idle to revealing,
\* through an accepted submit, and from revealing to idle, through the
\* reducer's reset when the orchestrator's timer fires advance; it is never
\* 'transitioning'.
C29_RevealThenReset ==
    /\ state.celebrationPhase \in {Null, "revealing"}
    /\ PhaseChanged =>
          \/ /\ PhaseStep = <<Null, "revealing">>
             /\ Dispatched = "SUBMIT_ANSWER"
             /\ last.event \in {"keydown", "pad"}
             /\ Pre.currentAnswer # <<>>
          \/ /\ PhaseStep = <<"revealing", Null>>
             /\ Dispatched = "NEXT_PROBLEM"
             /\ last.event = "slideTimer"

\* the orchestrator's advance took the phase from revealing back to idle
C29_Witness ==
    /\ last.event = "slideTimer"
    /\ PhaseStep = <<"revealing", Null>>
    /\ mounted

\* an incorrect answer was submitted and its feedback is showing
WaitingForNext == state.showFeedback /\ state.isAnswerCorrect = "false"

\* a correct answer was submitted and its reveal is showing
RevealingCorrect ==
    mounted /\ state.celebrationPhase = "revealing" /\ state.isAnswerCorrect = "true"

C30_WitnessCorrect ==
    /\ AdvancedByTimer
    /\ Pre.isAnswerCorrect = "true"
    /\ mounted

\* the last step was an advance that installed the generated problem after an answer
InstalledNewProblem ==
    /\ Dispatched = "NEXT_PROBLEM"
    /\ last.wasMounted
    /\ Pre.isAnswerCorrect # Null

\* C31: whenever a new problem is installed after an answer, the ten-frame
\* hint is hidden again (and the 'Show hint' button is shown in its place),
\* whatever the hint's visibility was for the previous problem.
C31_HintHiddenAgain == InstalledNewProblem => ~hint

\* the step is the high-score effect and its write reached the storage
HighScoreWritten ==
    /\ last'.event = "effect"
    /\ storage' = [kind |-> "number", value |-> state.streak]

\* C32: highScore never lags streak by more than one transition: streak -
\* highScore <= 1 in every reachable state, and whenever streak exceeds
\* highScore the update is applied before any further submit or advance is
\* processed: the next step is the effect, it raises the in-memory high score
\* to the streak, and the persisted value too when its write reaches storage.
C32_LagsByAtMostOne ==
    /\ [](state.streak - state.highScore <= 1)
    /\ [](Dispatched \in {"SUBMIT_ANSWER", "NEXT_PROBLEM"}
            => Pre.streak <= Pre.highScore)
    /\ [][state.streak > state.highScore
            => /\ last'.event = "effect"
               /\ state'.highScore = state.streak
               /\ state'.streak = state.streak
               /\ (HighScoreWritten => Persisted' = state'.highScore)]_vars

\* a correct answer has just taken the streak one past the high score
C32_Witness ==
    /\ Dispatched = "SUBMIT_ANSWER"
    /\ Pre.streak = Pre.highScore
    /\ state.streak = state.highScore + 1

\* the effect has caught up, in memory and in storage, and the game went on
C32_WitnessCaughtUp ==
    /\ Dispatched = "NEXT_PROBLEM"
    /\ state.streak > last.loaded
    /\ state.streak = state.highScore
    /\ Persisted = state.highScore

\* the claim's precondition: every slot can take minOperand within maxResult
RoomForAll == gameConfig.operandCount * Constraints.minOperand <= Constraints.maxResult

\* the operands of the running call all lie within [minOperand, maxOperand]
AllocatedInRange ==
    \A i \in 1..Len(frame.operands) :
        /\ frame.operands[i] >= Constraints.minOperand
        /\ frame.operands[i] <= Constraints.maxOperand

\* how often a value occurs in an array
Occurrences(operands, value) ==
    Cardinality({ i \in 1..Len(operands) : operands[i] = value })

\* the sort step keeps the multiset of operands, and so their sum
SortPermutes ==
    frame.pc = "sort"
        => /\ Len(frame'.operands) = Len(frame.operands)
           /\ \A value \in 0..MaxSeqResult + MaxGenOperand :
                 Occurrences(frame'.operands, value) = Occurrences(frame.operands, value)
           /\ SumSeq(frame'.operands) = SumSeq(frame.operands)

\* C33: for addition with more than 2 operands and operandCount x minOperand
\* <= maxResult, sequential allocation yields operands that each lie within
\* [minOperand, maxOperand] and whose sum is at most maxResult; the final slot
\* takes the remaining headroom (clamped to maxOperand); the permutation
\* applied afterwards changes neither the multiset of operands nor their sum.
C33_SequentialAllocation ==
    /\ [](RoomForAll => AllocatedInRange)
    /\ [](RoomForAll /\ frame.pc \in {"sort", "returned"}
            => SumSeq(frame.operands) <= Constraints.maxResult)
    /\ [](RoomForAll /\ frame.pc = "sort"
            => LET n == Len(frame.operands)
               IN  frame.operands[n]
                     = Min(Constraints.maxResult - SumSeq(SubSeq(frame.operands, 1, n - 1)),
                           Constraints.maxOperand))
    /\ [][SortPermutes]_vars

\* a call returned operands that use up maxResult, in an order other than the
\* one they were allocated in, with a positive minOperand
C33_Witness ==
    /\ RoomForAll
    /\ Constraints.minOperand > 0
    /\ frame.pc = "returned"
    /\ SumSeq(frame.operands) = Constraints.maxResult
    /\ frame.operands[1] > frame.operands[gameConfig.operandCount]

\* every pending reveal timer belongs to the submit now being revealed: App is
\* mounted, the phase is revealing, and the problem its callback closed over is
\* the current problem
SlideTimersCurrent ==
    \A i \in 1..Len(timers) :
        timers[i].kind = "slide"
            => /\ mounted
               /\ state.celebrationPhase = "revealing"
               /\ timers[i].captured = state.currentProblem

\* the last step was the orchestrator's timer calling nextProblem()
TimerAdvanced == last.event = "slideTimer"

\* C34: an advance fired by the orchestrator occurs while celebrationPhase is
\* revealing for the submit that scheduled it, and the problem it replaces (the
\* one its callback closed over) is the problem the pending answer was
\* evaluated against; a timer scheduled for an earlier problem is never pending
\* once that problem has been superseded or the phase has returned to idle.
C34_AdvanceNotStale ==
    /\ SlideTimersCurrent
    /\ SlideTimersPending <= 1
    /\ TimerAdvanced
           => /\ last.wasMounted
              /\ Pre.celebrationPhase = "revealing"
              /\ slide.slidingOutProblem = Pre.currentProblem
              /\ Pre.isAnswerCorrect
                    = Bool(Num(parseInt(Pre.currentAnswer)) = Pre.currentProblem.answer)
              /\ state.celebrationPhase = Null

\* the timer of a second reveal has replaced the problem it was scheduled for
C34_Witness ==
    /\ TimerAdvanced
    /\ Pre.streak = 2
    /\ Pre.celebrationPhase = "revealing"
    /\ slide.slidingOutProblem = Pre.currentProblem
    /\ state.currentProblem # Pre.currentProblem

\* the state the hook starts from is the one on screen
AtInitialState == last.event = "init"

\* C35: in every state reachable through the hook's actions (updateAnswer,
\* deleteLastDigit, submitAnswer, nextProblem) isAnswerCorrect is unknown
\* exactly when celebrationPhase is idle; the initial state has celebrationPhase
\* idle, an empty answer and isAnswerCorrect unknown.
C35_UnknownIffIdle ==
    /\ (state.isAnswerCorrect = Null) <=> (state.celebrationPhase = Null)
    /\ AtInitialState
          => /\ state.celebrationPhase = Null
             /\ state.currentAnswer = <<>>
             /\ state.isAnswerCorrect = Null

\* an incorrect answer is being revealed, with digits deleted since the submit
C35_Witness ==
    /\ state.isAnswerCorrect = "false"
    /\ state.celebrationPhase = "revealing"
    /\ Dispatched = "DELETE_DIGIT"

\* the state but for its answer
WithAnswer(s, answer) == [s EXCEPT !.currentAnswer = answer]

\* C36: frame conditions of the reducer: updateAnswer and deleteDigit change no
\* field other than currentAnswer; submit changes neither currentProblem nor
\* currentAnswer; currentProblem is replaced only by advance, so the problem
\* shown during revealing is the one the answer was checked against.
C36_FrameConditions ==
    /\ Dispatched \in {"UPDATE_ANSWER", "DELETE_DIGIT"}
          => WithAnswer(state, Pre.currentAnswer) = Pre
    /\ Dispatched = "SUBMIT_ANSWER"
          => /\ state.currentProblem = Pre.currentProblem
             /\ state.currentAnswer = Pre.currentAnswer
    /\ state.currentProblem # Pre.currentProblem => Dispatched = "NEXT_PROBLEM"
    /\ Dispatched = "SUBMIT_ANSWER" /\ state # Pre
          => state.isAnswerCorrect
                = Bool(Num(parseInt(Pre.currentAnswer)) = state.currentProblem.answer)
    /\ Pre.celebrationPhase = "revealing" /\ state.celebrationPhase = "revealing"
          => /\ state.currentProblem = Pre.currentProblem
             /\ state.isAnswerCorrect = Pre.isAnswerCorrect

\* a digit was typed while a correct answer was being revealed
C36_Witness ==
    /\ Dispatched = "UPDATE_ANSWER"
    /\ state.currentAnswer # Pre.currentAnswer
    /\ state.celebrationPhase = "revealing"
    /\ state.isAnswerCorrect = "true"

\* a submit was evaluated and started the reveal
C36_WitnessSubmit ==
    /\ Dispatched = "SUBMIT_ANSWER"
    /\ Pre.celebrationPhase = Null
    /\ state.celebrationPhase = "revealing"

\* the texts updateAnswer steps can build from the empty answer
TypedAnswers ==
    UNION { [1..n -> {DigitChars[i] : i \in 1..10}] : n \in 1..MAX_ANSWER_LENGTH }

\* the state after one updateAnswer per digit
RECURSIVE Typed(_, _)
Typed(s, digits) ==
    IF digits = <<>> THEN s
    ELSE Typed(UPDATE_ANSWER(s, Head(digits)), Tail(digits))

\* a problem has just been installed: idle, no answer typed, no verdict
JustInstalled ==
    /\ state.currentAnswer = <<>>
    /\ state.celebrationPhase = Null
    /\ state.isAnswerCorrect = Null

\* C37: every problem the state machine installs can be answered correctly
\* with the input actions: its answer is a non-negative integer of at most 3
\* digits, so from the state right after installation some updateAnswer steps
\* followed by submit reach isAnswerCorrect = true.
C37_Answerable ==
    JustInstalled
        => /\ IsInteger(Generated.answer)
           /\ Generated.answer.num >= 0
           /\ Generated.answer.num < 10 * 10 * 10
           /\ \E digits \in TypedAnswers :
                 SUBMIT_ANSWER(Typed(state, digits)).isAnswerCorrect = "true"

\* with the result hidden the installed problem can be answered
C37_ResultAnswerable == HidesOperand \/ C37_Answerable

\* the last step was a click on a selected checkbox that was the only one
\* selected in its control
UncheckedLast ==
    \/ /\ Dispatched = "TOGGLE_OPERATION"
       /\ last.preSettings.operations = <<last.action.toggled>>
    \/ /\ Dispatched = "TOGGLE_POSITION"
       /\ last.preSettings.unknownPositions = <<last.action.toggled>>

\* C38: after any sequence of toggles in the settings controls, starting from
\* a non-empty selection, the selected operations and the selected unknown
\* positions each remain non-empty: unchecking the last selected element is
\* rejected and leaves the selection unchanged, so the generator is never
\* given an empty set to choose from.
C38_SelectionNonEmpty ==
    /\ settings.operations # <<>>
    /\ settings.unknownPositions # <<>>
    /\ UncheckedLast => settings = last.preSettings /\ gameConfig = settingsConfig(settings)
    /\ gameConfig.operations # {}
    /\ gameConfig.unknownPositions # {}
    /\ generateProblem(gameConfig) # {}

\* after other toggles one operation was left selected, and the click that
\* would have unchecked it was rejected
C38_Witness ==
    /\ UncheckedLast
    /\ Dispatched = "TOGGLE_OPERATION"
    /\ settings.operations = <<"division">>
    /\ Len(settings.unknownPositions) = 2

====
